---- MODULE Spec2Model ----
(***************************************************************************)
(* The Thing REST resource of gabbi-hypothesis-demo.                        *)
(*                                                                         *)
(* src/app/api/thing.py declares ThingSerializer (a ModelSerializer over   *)
(* the fields id and name) and ThingViewSet (a ModelViewSet over           *)
(* Thing.objects.all()); src/app/api/urls.py routes it at                   *)
(* /app/api/things/.  src/app/tests.py drives it over HTTP: POST a name,   *)
(* then GET the returned id.                                               *)
(*                                                                         *)
(* A name is a sequence of characters.  The table of Things is a sequence  *)
(* of rows in the order the rows were inserted.  One exchange is a request *)
(* handled by the view set (idle -> responded) and then read by the client *)
(* (responded -> idle).                                                    *)
(***************************************************************************)
EXTENDS Integers, Sequences, FiniteSets

VARIABLES
    store,     \* the table of Things: a sequence of rows [id, name]
    nextId,    \* the primary-key sequence of the table
    issued,    \* history: the ids returned by successful creates, in order
    pc,        \* "idle" (no exchange open) or "responded"
    request,   \* the request of the open exchange
    response,  \* its response
    posted     \* the client's $RESPONSE of a successful POST: its id and the name it sent

vars == <<store, nextId, issued, pc, request, response, posted>>

----------------------------------------------------------------------------
(* Bounds of the model *)

MaxShort == 2   \* every string over Alphabet up to this length is an input
Margin == 1     \* long inputs have MAX_LENGTH - Margin .. MAX_LENGTH + Margin characters
MaxPad == 1     \* and up to this much whitespace on either side
MaxId == 2      \* the primary-key sequence stops here

(* Thing.name is a CharField(max_length=255) *)
MAX_LENGTH == 255

----------------------------------------------------------------------------
(* Strings *)

Space == " "
Alphabet == {Space, "a"}
Whitespace == {Space}

Rep(c, n) == [i \in 1..n |-> c]

RECURSIVE StringsOfLen(_)
StringsOfLen(n) ==
    IF n = 0 THEN {<<>>}
    ELSE {Append(s, c) : s \in StringsOfLen(n - 1), c \in Alphabet}

ShortNames == UNION {StringsOfLen(n) : n \in 0..MaxShort}

(* a long word with whitespace inside it: "a aaa...a", n characters in all *)
LongWord(n) == <<"a", Space>> \o Rep("a", n - 2)

LongNames ==
    {Rep(Space, l) \o LongWord(n) \o Rep(Space, t) :
        l \in 0..MaxPad, t \in 0..MaxPad,
        n \in (MAX_LENGTH - Margin)..(MAX_LENGTH + Margin)}

PaddedNames ==
    {Rep(Space, n) : n \in MAX_LENGTH..(MAX_LENGTH + Margin)}
    \cup {<<"a">> \o Rep(Space, n) : n \in (MAX_LENGTH - Margin)..(MAX_LENGTH + Margin)}
    \cup {Rep(Space, n) \o <<"a">> : n \in (MAX_LENGTH - Margin)..(MAX_LENGTH + Margin)}

(* the names a client sends *)
Names == ShortNames \cup LongNames \cup PaddedNames

(* the primary keys a client asks for: issued ones and one never issued *)
Pks == 1..(MaxId + 1)

SetMax(S) == CHOOSE x \in S : \A y \in S : y <= x

IsSpace(c) == c \in Whitespace

(* str.strip(): the string without its leading and trailing whitespace, *)
(* found by scanning in from either end                                 *)
Strip(s) ==
    IF \A i \in 1..Len(s) : IsSpace(s[i])
    THEN <<>>
    ELSE LET first == CHOOSE i \in 1..Len(s) :
                          ~IsSpace(s[i]) /\ \A j \in 1..(i - 1) : IsSpace(s[j])
             last == CHOOSE i \in 1..Len(s) :
                          ~IsSpace(s[i]) /\ \A j \in (i + 1)..Len(s) : IsSpace(s[j])
         IN  SubSeq(s, first, last)

(* strip of every name a client sends, computed once *)
stripped == [s \in Names |-> Strip(s)]

----------------------------------------------------------------------------
(* ThingSerializer: the name field *)

BLANK == "This field may not be blank."
TOO_LONG == "Ensure this field has no more than 255 characters."

Valid(value) == [ok |-> TRUE, value |-> value, errors |-> <<>>]
Invalid(message) == [ok |-> FALSE, value |-> <<>>, errors |-> <<message>>]

(* the slip of a field declared with trim_whitespace=False *)
to_internal_value_Raw(data) == data

(* CharField.to_internal_value with trim_whitespace, the default *)
to_internal_value(data) == Strip(data)

(* the slip of a limit one too high *)
run_validators_OffByOne(value) ==
    IF Len(value) > MAX_LENGTH + 1 THEN Invalid(TOO_LONG) ELSE Valid(value)

(* MaxLengthValidator(255), run on the internal value *)
run_validators(value) ==
    IF Len(value) > MAX_LENGTH THEN Invalid(TOO_LONG) ELSE Valid(value)

(* the slip of running the length validator before the blank test *)
run_validation_LengthFirst(data) ==
    IF Len(data) > MAX_LENGTH
    THEN Invalid(TOO_LONG)
    ELSE IF Strip(data) = <<>> THEN Invalid(BLANK) ELSE Valid(to_internal_value(data))

(* the slip of running the length validator on the data as sent *)
run_validation_RawLength(data) ==
    IF data = <<>> \/ Strip(data) = <<>>
    THEN Invalid(BLANK)
    ELSE IF Len(data) > MAX_LENGTH
    THEN Invalid(TOO_LONG)
    ELSE Valid(to_internal_value(data))

(* the slip of testing for the empty string only, before the whitespace is trimmed *)
run_validation_EmptyOnly(data) ==
    IF data = <<>>
    THEN Invalid(BLANK)
    ELSE run_validators(to_internal_value(data))

(* CharField.run_validation: the blank test comes first and ends validation *)
run_validation(data) ==
    IF data = <<>> \/ Strip(data) = <<>>
    THEN Invalid(BLANK)
    ELSE run_validators(to_internal_value(data))

(* validation of every name a client sends, computed once *)
validated == [data \in Names |-> run_validation(data)]

----------------------------------------------------------------------------
(* Responses *)

NoThing == [id |-> 0, name |-> <<>>]
NoPost == [id |-> 0, name |-> <<>>]
NoRequest == [op |-> "none", pk |-> 0, data |-> <<>>]

Response(status, thing, errors, things) ==
    [status |-> status, thing |-> thing, errors |-> errors, things |-> things]

NoResponse == Response(0, NoThing, <<>>, <<>>)

Ids(rows) == {rows[i].id : i \in 1..Len(rows)}
Index(rows, pk) == CHOOSE i \in 1..Len(rows) : rows[i].id = pk

Result(rows, seq, resp) == [rows |-> rows, seq |-> seq, response |-> resp]

----------------------------------------------------------------------------
(* ThingViewSet: the handlers, as functions of the table, the key sequence *)
(* and the request                                                         *)

(* Thing.objects.all(): the rows of the table, in the order of insertion *)
objects_all(rows) == rows

(* the slip of a key computed from the rows that are left *)
perform_create_MaxPlusOne(rows, seq, value) ==
    Append(rows, [id |-> IF rows = <<>> THEN 1 ELSE SetMax(Ids(rows)) + 1,
                  name |-> value])

(* serializer.save() of a new Thing: the row takes the next key *)
perform_create(rows, seq, value) == Append(rows, [id |-> seq, name |-> value])

(* the slip of an update that deletes the row and inserts it again *)
perform_update_Reinsert(rows, pk, value) ==
    Append(SelectSeq(rows, LAMBDA r : r.id # pk), [id |-> pk, name |-> value])

(* serializer.save() of a fetched Thing: the row is rewritten in place *)
perform_update(rows, pk, value) ==
    [rows EXCEPT ![Index(rows, pk)] = [id |-> pk, name |-> value]]

(* instance.delete() *)
perform_destroy(rows, pk) == SelectSeq(rows, LAMBDA r : r.id # pk)

(* the slip of saving before the data is validated *)
create_SaveFirst(rows, seq, data) ==
    LET v == validated[data]
        saved == perform_create(rows, seq, to_internal_value(data))
    IN  IF ~v.ok
        THEN Result(saved, seq + 1, Response(400, NoThing, v.errors, <<>>))
        ELSE Result(saved, seq + 1, Response(201, saved[Len(saved)], <<>>, <<>>))

(* POST /app/api/things/ *)
create(rows, seq, data) ==
    LET v == validated[data]
    IN  IF ~v.ok
        THEN Result(rows, seq, Response(400, NoThing, v.errors, <<>>))
        ELSE LET saved == perform_create(rows, seq, v.value)
             IN  Result(saved, seq + 1,
                        Response(201, saved[Len(saved)], <<>>, <<>>))

(* the slip of taking the key for the position of the row *)
retrieve_ByPosition(rows, seq, pk) ==
    IF pk \notin 1..Len(rows)
    THEN Result(rows, seq, Response(404, NoThing, <<>>, <<>>))
    ELSE Result(rows, seq, Response(200, rows[pk], <<>>, <<>>))

(* GET /app/api/things/{pk}/ *)
retrieve(rows, seq, pk) ==
    IF pk \notin Ids(objects_all(rows))
    THEN Result(rows, seq, Response(404, NoThing, <<>>, <<>>))
    ELSE Result(rows, seq, Response(200, rows[Index(rows, pk)], <<>>, <<>>))

(* GET /app/api/things/ *)
list(rows, seq) ==
    Result(rows, seq, Response(200, NoThing, <<>>, objects_all(rows)))

(* PUT /app/api/things/{pk}/: the object is fetched before the data is validated *)
update(rows, seq, pk, data) ==
    LET v == validated[data]
    IN  IF pk \notin Ids(objects_all(rows))
        THEN Result(rows, seq, Response(404, NoThing, <<>>, <<>>))
        ELSE IF ~v.ok
        THEN Result(rows, seq, Response(400, NoThing, v.errors, <<>>))
        ELSE LET saved == perform_update(rows, pk, v.value)
             IN  Result(saved, seq,
                        Response(200, saved[Index(saved, pk)], <<>>, <<>>))

(* DELETE /app/api/things/{pk}/ *)
destroy(rows, seq, pk) ==
    IF pk \notin Ids(objects_all(rows))
    THEN Result(rows, seq, Response(404, NoThing, <<>>, <<>>))
    ELSE Result(perform_destroy(rows, pk), seq, Response(204, NoThing, <<>>, <<>>))

----------------------------------------------------------------------------
(* The exchanges *)

Init ==
    /\ store = <<>>
    /\ nextId = 1
    /\ issued = <<>>
    /\ pc = "idle"
    /\ request = NoRequest
    /\ response = NoResponse
    /\ posted = NoPost

Handled(req, res) ==
    /\ pc' = "responded"
    /\ request' = req
    /\ store' = res.rows
    /\ nextId' = res.seq
    /\ response' = res.response

Create(data) ==
    LET res == create(store, nextId, data)
    IN  /\ pc = "idle"
        /\ res.response.status = 201 => nextId <= MaxId
        /\ Handled([op |-> "create", pk |-> 0, data |-> data], res)
        /\ issued' = IF res.response.status = 201
                     THEN Append(issued, res.response.thing.id)
                     ELSE issued
        /\ posted' = IF res.response.status = 201
                     THEN [id |-> res.response.thing.id, name |-> data]
                     ELSE NoPost

Retrieve(pk) ==
    /\ pc = "idle"
    /\ Handled([op |-> "retrieve", pk |-> pk, data |-> <<>>],
               retrieve(store, nextId, pk))
    /\ posted' = IF posted.id = pk THEN posted ELSE NoPost
    /\ UNCHANGED issued

List ==
    /\ pc = "idle"
    /\ Handled([op |-> "list", pk |-> 0, data |-> <<>>], list(store, nextId))
    /\ posted' = NoPost
    /\ UNCHANGED issued

Update(pk, data) ==
    /\ pc = "idle"
    /\ Handled([op |-> "update", pk |-> pk, data |-> data],
               update(store, nextId, pk, data))
    /\ posted' = NoPost
    /\ UNCHANGED issued

Destroy(pk) ==
    /\ pc = "idle"
    /\ Handled([op |-> "destroy", pk |-> pk, data |-> <<>>],
               destroy(store, nextId, pk))
    /\ posted' = NoPost
    /\ UNCHANGED issued

(* the client has read the response: the exchange is over *)
Receive ==
    /\ pc = "responded"
    /\ pc' = "idle"
    /\ request' = NoRequest
    /\ response' = NoResponse
    /\ UNCHANGED <<store, nextId, issued, posted>>

Next ==
    \/ \E data \in Names : Create(data)
    \/ \E pk \in Pks : Retrieve(pk)
    \/ List
    \/ \E pk \in Pks, data \in Names : Update(pk, data)
    \/ \E pk \in Pks : Destroy(pk)
    \/ Receive

Spec == Init /\ [][Next]_vars

----------------------------------------------------------------------------
(* Properties *)

Responded(op) == pc = "responded" /\ request.op = op
NameError(message) == Response(400, NoThing, <<message>>, <<>>)
Row(pk) == store[Index(store, pk)]

(* C1: a name that is not blank and shorter than 255 is created with 201,  *)
(* and the retrieve of the returned id that follows returns the name       *)
(* exactly as it was sent, leading and trailing whitespace included.       *)
C1_RoundTripRaw ==
    /\ (Responded("create") /\ stripped[request.data] # <<>>
            /\ Len(request.data) < MAX_LENGTH)
       => response.status = 201
    /\ (Responded("retrieve") /\ posted # NoPost /\ Len(posted.name) < MAX_LENGTH)
       => (response.status = 200 /\ response.thing.name = posted.name)

(* C2: a create with a name that is empty once stripped, of any length,    *)
(* is answered 400 with the blank message and nothing else.                *)
C2_BlankRejected ==
    (Responded("create") /\ stripped[request.data] = <<>>)
    => response = NameError(BLANK)

C2_Witness ==
    /\ Responded("create")
    /\ stripped[request.data] = <<>>
    /\ Len(request.data) > MAX_LENGTH
    /\ response = NameError(BLANK)

(* C3: a create with a name longer than 255 once stripped is answered 400  *)
(* with the too-long message and nothing else.                             *)
C3_TooLongRejected ==
    (Responded("create") /\ Len(stripped[request.data]) > MAX_LENGTH)
    => response = NameError(TOO_LONG)

C3_Witness ==
    /\ Responded("create")
    /\ Len(stripped[request.data]) = MAX_LENGTH + 1
    /\ response = NameError(TOO_LONG)

(* C4, as claimed: the limit is measured on the name as sent: a name that  *)
(* is not blank and longer than 255 as sent is answered 400 with the       *)
(* too-long message, and one of exactly 255 as sent is created.            *)
C4_RawLength ==
    /\ (Responded("create") /\ stripped[request.data] # <<>>
            /\ Len(request.data) > MAX_LENGTH)
       => response = NameError(TOO_LONG)
    /\ (Responded("create") /\ stripped[request.data] # <<>>
            /\ Len(request.data) = MAX_LENGTH)
       => response.status = 201

(* C4, amended: the limit is measured on the stripped name: a name that is *)
(* not blank is answered 400 with the too-long message exactly when its    *)
(* stripped form is longer than 255, and is created with 201 otherwise,    *)
(* also when it is longer than 255 as sent.                                *)
C4_StrippedLength ==
    (Responded("create") /\ stripped[request.data] # <<>>)
    => IF Len(stripped[request.data]) > MAX_LENGTH
       THEN response = NameError(TOO_LONG)
       ELSE response.status = 201

C4_Witness ==
    /\ Responded("create")
    /\ Len(request.data) > MAX_LENGTH
    /\ stripped[request.data] # <<>>
    /\ Len(stripped[request.data]) <= MAX_LENGTH
    /\ response.status = 201

C6_IdsUnique ==
    /\ \A i, j \in 1..Len(issued) : i # j => issued[i] # issued[j]
    /\ \A i, j \in 1..Len(store) : i # j => store[i].id # store[j].id

C6_Witness ==
    /\ Responded("create")
    /\ response.status = 201
    /\ \E i \in 1..Len(issued) : issued[i] \notin Ids(store)

(* C7: every stored name is non-empty once stripped and at most 255 long.  *)
C7_StoredNamesValid ==
    \A i \in 1..Len(store) :
        /\ Strip(store[i].name) # <<>>
        /\ Len(store[i].name) <= MAX_LENGTH

C7_Witness ==
    /\ Responded("update")
    /\ response.status = 200
    /\ Len(request.data) > MAX_LENGTH
    /\ \E i \in 1..Len(store) : Len(store[i].name) = MAX_LENGTH

(* the answer of a retrieve: 200 with the stored row when the id is in the *)
(* table, 404 when it is not                                               *)
C8_RetrieveAnswer ==
    Responded("retrieve")
    => IF \E i \in 1..Len(store) : store[i].id = request.pk
       THEN response = Response(200, Row(request.pk), <<>>, <<>>)
            /\ response.thing.id = request.pk
       ELSE response = Response(404, NoThing, <<>>, <<>>)

(* C8: a retrieve is answered 200 with {id, name} of the stored row exactly *)
(* when the id is in the table and 404 otherwise (never created, or        *)
(* deleted), and it leaves the table as it was.                            *)
C8_Retrieve ==
    /\ []C8_RetrieveAnswer
    /\ [][(pc = "idle" /\ request'.op = "retrieve")
            => (store' = store /\ nextId' = nextId)]_vars

C8_Witness ==
    /\ Responded("retrieve")
    /\ response.status = 404
    /\ \E i \in 1..Len(issued) : issued[i] = request.pk
    /\ store # <<>>

(* C9: a list is answered 200 with the stored Things, each once, in the    *)
(* order of their creation.                                                *)
C9_ListInCreationOrder ==
    Responded("list")
    => LET alive == SelectSeq(issued, LAMBDA k : k \in Ids(store))
       IN  /\ response.status = 200
           /\ Len(response.things) = Len(alive)
           /\ Len(alive) = Len(store)
           /\ \A i \in 1..Len(alive) :
                  /\ response.things[i].id = alive[i]
                  /\ response.things[i] = Row(alive[i])

C9_Witness ==
    /\ Responded("list")
    /\ Len(response.things) >= 2
    /\ response.things[1].name # response.things[2].name

(* C10: a create answered 400 leaves the table and its key sequence as     *)
(* they were.                                                              *)
C10_RejectedCreateWritesNothing ==
    [][(pc = "idle" /\ request'.op = "create" /\ response'.status = 400)
        => (store' = store /\ nextId' = nextId)]_vars

C10_Witness ==
    /\ Responded("create")
    /\ response.status = 400
    /\ store # <<>>

====
